---------------------------- MODULE Spec2Model ----------------------------
(***************************************************************************)
(* Census table -> district boundary join, both pipeline variants:         *)
(*   Variant A  Census_Join_Pipeline.py  (several CSVs, transpose, split   *)
(*              by chamber pattern, outer merge, sanitize, left join)      *)
(*   Variant B  Census_Join_simple.py    (one CSV, structured headers,     *)
(*              parse + reshape, sanitize, left join)                      *)
(*                                                                         *)
(* A Python str is a sequence of one-character strings, so that slicing,   *)
(* regular expressions, strip, int() and zfill are computed, not assumed.  *)
(* A DataFrame is [cols |-> column names, rows |-> rows], a row being the  *)
(* sequence of its cells in column order (so that two columns of the same  *)
(* name remain two columns).  None is the record [none |-> TRUE].          *)
(*                                                                         *)
(* Regular expressions follow Python <= 3.10, where an inline (?i) in the  *)
(* middle of CHAMBER_PATTERNS applies to the whole pattern.                *)
(***************************************************************************)
EXTENDS Integers, Sequences, FiniteSets, TLC

(* ------------------------------ bounds -------------------------------- *)
\* columns of a table handed to sanitize_all_columns (SpecSanitize)
MaxCols == 3
\* district columns of one CSV file
MaxDistricts == 2
\* characteristic rows of the CSV of Variant B (SpecLoad)
MaxChars == 2
\* rows of a per-chamber table handed to merge_tables_for_chamber (SpecMerge)
MaxRows == 2
\* features of a boundary file
MaxFeatures == 2

(* ------------------------- program constants --------------------------- *)
\* Census_Join_simple.py: DISTRICT_ID_PAD = 3
DISTRICT_ID_PAD == 3
\* name[:10] and original[:10 - len(suffix)] in sanitize_field_name
MaxFieldLen == 10
\* Census_Join_Pipeline.py: STRIP_LEADING_ZEROS = True
STRIP_LEADING_ZEROS == TRUE
\* Census_Join_simple.py: ESTIMATES_ONLY = True
ESTIMATES_ONLY == TRUE
\* for chamber in ["house", "senate"]
Chambers == <<"house", "senate">>
ChamberSet == {"house", "senate"}
\* the cell pandas fills in where a join finds no partner
NaN == <<"N","a","N">>
District_ID == <<"D","i","s","t","r","i","c","t","_","I","D">>

(* ------------------------------ Python str ----------------------------- *)
UpperChars == <<"A","B","C","D","E","F","G","H","I","J","K","L","M","N","O","P","Q","R","S","T","U","V","W","X","Y","Z">>
LowerChars == <<"a","b","c","d","e","f","g","h","i","j","k","l","m","n","o","p","q","r","s","t","u","v","w","x","y","z">>
DigitChars == <<"0","1","2","3","4","5","6","7","8","9">>

Range(s) == {s[i] : i \in DOMAIN s}
DigitSet == Range(DigitChars)
UpperSet == Range(UpperChars)
LowerSet == Range(LowerChars)

IsDigit(c) == c \in DigitSet
IsUpper(c) == c \in UpperSet
IsLower(c) == c \in LowerSet
\* \w of re, and the class [A-Za-z0-9_]
IsWordChar(c) == IsDigit(c) \/ IsUpper(c) \/ IsLower(c) \/ c = "_"
IsSpace(c) == c \in {" ", "\t", "\n"}

\* str.lower() on one character
LowerOf == [c \in UpperSet |-> LowerChars[CHOOSE i \in DOMAIN UpperChars : UpperChars[i] = c]]
LowerChar(c) == IF IsUpper(c) THEN LowerOf[c] ELSE c

\* Python evaluates an argument once, before the call.  Bind picks the one
\* element of a singleton set: Bind({ body : x \in {argument} }) is body with
\* x bound to the value of the argument.
Bind(S) == CHOOSE v \in S : TRUE

\* str.lower()
Lower(str) == Bind({ [i \in DOMAIN s |-> LowerChar(s[i])] : s \in {str} })

\* s[a:b] for 0 <= a, 0 <= b  (Python clamps both to len(s))
Slice(str, from, to) ==
    Bind({ LET hi == IF b > Len(s) THEN Len(s) ELSE b
           IN  IF a >= hi THEN <<>> ELSE [i \in 1..(hi - a) |-> s[a + i]] :
           s \in {str}, a \in {from}, b \in {to} })

\* s[:k]; a negative k counts from the end, as in Python
PyPrefix(str, count) ==
    Bind({ IF k >= 0 THEN Slice(s, 0, k)
           ELSE IF Len(s) + k <= 0 THEN <<>> ELSE Slice(s, 0, Len(s) + k) :
           s \in {str}, k \in {count} })

\* str.strip()
Strip(str) ==
    Bind({ IF keep = {} THEN <<>>
           ELSE LET lo == CHOOSE i \in keep : \A j \in keep : i <= j
                    hi == CHOOSE i \in keep : \A j \in keep : j <= i
                IN  Slice(s, lo - 1, hi) :
           s \in {str}, keep \in {{i \in DOMAIN str : ~IsSpace(str[i])}} })

\* s.startswith(lit, i) with i counted from 0
StartsWithAt(s, i, lit) ==
    /\ i + Len(lit) <= Len(s)
    /\ \A k \in DOMAIN lit : s[i + k] = lit[k]

\* s.find(lit, i): the first offset >= i where lit occurs, or -1
Find(str, sub, start) ==
    Bind({ IF hits = {} THEN -1 ELSE CHOOSE j \in hits : \A k \in hits : j <= k :
           hits \in {{j \in start..(Len(str) - Len(sub)) : StartsWithAt(str, j, sub)}} })

\* lit in s
Contains(s, lit) == Find(s, lit, 0) >= 0

\* s.endswith(lit)
EndsWith(str, suffix) ==
    Bind({ Len(lit) <= Len(s) /\ StartsWithAt(s, Len(s) - Len(lit), lit) :
           s \in {str}, lit \in {suffix} })

\* s.split(sep)[0]
SplitFirst(str, sep) ==
    Bind({ IF i >= 0 THEN Slice(s, 0, i) ELSE s : s \in {str}, i \in {Find(str, sep, 0)} })

\* s.split(sep)[-1]: separators are found left to right, without overlap
RECURSIVE SplitLast(_, _)
SplitLast(str, sep) ==
    Bind({ IF i >= 0 THEN SplitLast(Slice(s, i + Len(sep), Len(s)), sep) ELSE s :
           s \in {str}, i \in {Find(str, sep, 0)} })

\* str.isdigit()
IsDigitStr(str) == Bind({ s # <<>> /\ \A i \in DOMAIN s : IsDigit(s[i]) : s \in {str} })

DigitValOf == [c \in DigitSet |-> (CHOOSE i \in DOMAIN DigitChars : DigitChars[i] = c) - 1]
DigitVal(c) == DigitValOf[c]

\* int(s) for a string of digits
RECURSIVE ParseInt(_)
ParseInt(str) ==
    Bind({ IF s = <<>> THEN 0
           ELSE 10 * ParseInt(Slice(s, 0, Len(s) - 1)) + DigitVal(s[Len(s)]) : s \in {str} })

\* str(n) for n >= 0
RECURSIVE IntToStr(_)
IntToStr(num) ==
    Bind({ IF n < 10 THEN <<DigitChars[n + 1]>>
           ELSE Append(IntToStr(n \div 10), DigitChars[(n % 10) + 1]) : n \in {num} })

\* str.zfill(width) of a string without sign
RECURSIVE ZFill(_, _)
ZFill(str, width) ==
    Bind({ IF Len(s) >= width THEN s ELSE ZFill(<<"0">> \o s, width) : s \in {str} })

\* re.sub(r"[^0-9]", "", s)
RECURSIVE DigitsOnly(_)
DigitsOnly(str) ==
    Bind({ IF s = <<>> THEN <<>>
           ELSE (IF IsDigit(s[1]) THEN <<s[1]>> ELSE <<>>) \o DigitsOnly(Tail(s)) :
           s \in {str} })

\* re.sub(r"[^A-Za-z0-9_]", "_", s)
ReplaceUnsafe(str) ==
    Bind({ [i \in DOMAIN s |-> IF IsWordChar(s[i]) THEN s[i] ELSE "_"] : s \in {str} })

\* re.sub(r"_+", "_", s)
RECURSIVE CollapseUnderscores(_)
CollapseUnderscores(str) ==
    Bind({ IF Len(s) < 2 THEN s
           ELSE IF s[1] = "_" /\ s[2] = "_" THEN CollapseUnderscores(Tail(s))
           ELSE <<s[1]>> \o CollapseUnderscores(Tail(s)) : s \in {str} })

\* re.IGNORECASE match of a literal at offset i
MatchCI(s, i, lit) ==
    /\ i + Len(lit) <= Len(s)
    /\ \A k \in DOMAIN lit : LowerChar(s[i + k]) = LowerChar(lit[k])

\* \b at offset p (between s[p] and s[p+1], counted from 1)
WordBoundary(s, p) ==
    LET before == p >= 1 /\ p <= Len(s) /\ IsWordChar(s[p])
        after  == p + 1 >= 1 /\ p + 1 <= Len(s) /\ IsWordChar(s[p + 1])
    IN  before # after

\* One alternative of a chamber pattern: \b? literal \b?, case-insensitive
AltMatchesAt(s, i, alt) ==
    /\ MatchCI(s, i, alt.lit)
    /\ alt.b0 => WordBoundary(s, i)
    /\ alt.b1 => WordBoundary(s, i + Len(alt.lit))

\* Series.str.contains(pattern, regex=True) for a pattern that is an
\* alternation of such alternatives
RegexContains(str, pattern) ==
    Bind({ \E k \in DOMAIN alts : \E i \in 0..Len(s) : AltMatchesAt(s, i, alts[k]) :
           s \in {str}, alts \in {pattern} })

(* ------------------------------ DataFrame ------------------------------ *)
\* merged = None
NoneValue == [none |-> TRUE]
IsNone(x) == "none" \in DOMAIN x

DataFrame(cols, rows) == [cols |-> cols, rows |-> rows]
\* pd.DataFrame()
EmptyDataFrame == DataFrame(<<>>, <<>>)
\* DataFrame.empty: some axis has length 0
IsEmpty(df) == Len(df.cols) = 0 \/ Len(df.rows) = 0

\* position of the first column called name (0 when there is none)
ColIndex(columns, name) ==
    Bind({ IF n \in Range(cols)
           THEN CHOOSE i \in DOMAIN cols : cols[i] = n /\ \A j \in 1..(i - 1) : cols[j] # n
           ELSE 0 :
           cols \in {columns}, n \in {name} })

\* the District_ID cells of a table, in row order
KeyColumn(table, key) ==
    Bind({ [r \in DOMAIN df.rows |-> df.rows[r][k]] :
           df \in {table}, k \in {ColIndex(table.cols, key)} })

\* the sub-sequence of s at the positions of keep, in order
RECURSIVE SelectIdx(_, _, _)
SelectIdx(seq, positions, from) ==
    Bind({ IF i > Len(s) THEN <<>>
           ELSE (IF i \in keep THEN <<s[i]>> ELSE <<>>) \o SelectIdx(s, keep, i + 1) :
           s \in {seq}, keep \in {positions}, i \in {from} })

\* concatenation of a sequence of sequences
RECURSIVE Flatten(_)
Flatten(seqs) ==
    Bind({ IF ss = <<>> THEN <<>> ELSE Head(ss) \o Flatten(Tail(ss)) : ss \in {seqs} })

\* DataFrame.drop(columns=names)
DropColumns(table, names) ==
    Bind({ DataFrame(SelectIdx(df.cols, keep, 1),
                     [r \in DOMAIN df.rows |-> SelectIdx(df.rows[r], keep, 1)]) :
           df \in {table},
           keep \in {{i \in DOMAIN table.cols : table.cols[i] \notin names}} })

\* a Python dict used as a mapping: the empty dict and d[k] = v
EmptyMap == [k \in {} |-> k]
MapPut(map, key, value) ==
    Bind({ [x \in (DOMAIN m) \cup {k} |-> IF x = k THEN v ELSE m[x]] :
           m \in {map}, k \in {key}, v \in {value} })

(* --------------------------- field name sanitizer ---------------------- *)
\* the while loop of sanitize_field_name
RECURSIVE UniqueName(_, _, _, _)
UniqueName(name, original, counter, existing) ==
    Bind({ IF n \notin used THEN n
           ELSE UniqueName(PyPrefix(original, MaxFieldLen - Len(suffix)) \o suffix,
                           original, c + 1, existing) :
           n \in {name}, c \in {counter}, suffix \in {IntToStr(counter)},
           used \in {Range(existing)} })

\* sanitize_field_name(name, existing): the name returned (the caller's list
\* gets it appended)
sanitize_field_name(name, existing) ==
    Bind({ UniqueName(cut, cut, 1, used) :
           cut \in {PyPrefix(CollapseUnderscores(ReplaceUnsafe(Strip(name))), MaxFieldLen)},
           used \in {existing} })

\* the for loop of sanitize_all_columns: [used_names, rename_map] after column i..
RECURSIVE SanitizeLoop(_, _, _, _, _)
SanitizeLoop(columns, at, keep_as_is, used, renames) ==
    Bind({ IF i > Len(cols) THEN [used_names |-> used_names, rename_map |-> rename_map]
           ELSE IF cols[i] \in Range(keep_as_is)
           THEN SanitizeLoop(cols, i + 1, keep_as_is, used_names, rename_map)
           ELSE Bind({ SanitizeLoop(cols, i + 1, keep_as_is, Append(used_names, safe),
                                    IF safe # cols[i] THEN MapPut(rename_map, cols[i], safe)
                                    ELSE rename_map) :
                       safe \in {sanitize_field_name(cols[i], used_names)} }) :
           cols \in {columns}, i \in {at}, used_names \in {used}, rename_map \in {renames} })

\* df.rename(columns=rename_map): every column is looked up by its name
RenameColumns(table, renames) ==
    Bind({ [df EXCEPT !.cols = [i \in DOMAIN df.cols |->
               IF df.cols[i] \in DOMAIN rename_map THEN rename_map[df.cols[i]]
               ELSE df.cols[i]]] :
           df \in {table}, rename_map \in {renames} })

sanitize_all_columns(df, keep_as_is) ==
    RenameColumns(df, SanitizeLoop(df.cols, 1, keep_as_is, keep_as_is, EmptyMap).rename_map)

(* ------------------------------ Variant A ------------------------------ *)
\* CHAMBER_PATTERNS: each pattern is an alternation; b0, b1 say whether the
\* alternative begins, ends with \b
CHAMBER_PATTERNS ==
    [house  |-> << [lit |-> <<"h","o","u","s","e">>, b0 |-> FALSE, b1 |-> FALSE],
                   [lit |-> <<"H","D">>,    b0 |-> TRUE,  b1 |-> TRUE],
                   [lit |-> <<"H","-">>,    b0 |-> TRUE,  b1 |-> FALSE] >>,
     senate |-> << [lit |-> <<"s","e","n","a","t","e">>, b0 |-> FALSE, b1 |-> FALSE],
                   [lit |-> <<"S","D">>,     b0 |-> TRUE,  b1 |-> TRUE],
                   [lit |-> <<"S","-">>,     b0 |-> TRUE,  b1 |-> FALSE] >>]

\* "|".join(CHAMBER_PATTERNS.values())
JoinedPattern == Flatten([i \in DOMAIN Chambers |-> CHAMBER_PATTERNS[Chambers[i]]])

extract_district_number(district_id) ==
    Bind({ IF STRIP_LEADING_ZEROS /\ num # <<>> THEN IntToStr(ParseInt(num)) ELSE num :
           num \in {DigitsOnly(district_id)} })

\* A CSV as pd.read_csv(dtype=str) returns it: the first column holds the
\* characteristic names (chars), the other columns are the districts
\* (headers); cells[r][c] is the cell of characteristic r under header c.
\* transpose_csv: set_index(first column), .T, reset_index as District_ID
transpose_csv(csv) ==
    DataFrame(<<District_ID>> \o csv.chars,
              [c \in DOMAIN csv.headers |->
                  <<csv.headers[c]>> \o [r \in DOMAIN csv.chars |-> csv.cells[r][c]]])

\* subset["District_ID"] = subset["District_ID"].apply(f)
ApplyExtract(table) ==
    Bind({ [df EXCEPT !.rows = [r \in DOMAIN df.rows |->
               [df.rows[r] EXCEPT ![k] = extract_district_number(df.rows[r][k])]]] :
           df \in {table}, k \in {ColIndex(table.cols, District_ID)} })

\* df[mask].copy() for mask = df["District_ID"].str.contains(pattern)
MaskedRows(table, pattern) ==
    Bind({ LET mask == {r \in DOMAIN df.rows : RegexContains(df.rows[r][k], pattern)}
           IN  DataFrame(df.cols, SelectIdx(df.rows, mask, 1)) :
           df \in {table}, k \in {ColIndex(table.cols, District_ID)} })

\* one turn of the loop of split_by_chamber
ChamberSubset(df, chamber) ==
    Bind({ IF IsEmpty(subset) THEN subset ELSE ApplyExtract(subset) :
           subset \in {MaskedRows(df, CHAMBER_PATTERNS[chamber])} })

\* UnmatchedRows with the mask of the first chamber only
UnmatchedRows_FirstPattern(table) ==
    Bind({ LET matched == {r \in DOMAIN df.rows :
                              RegexContains(df.rows[r][k], CHAMBER_PATTERNS[Chambers[1]])}
           IN  SelectIdx(df.rows, (DOMAIN df.rows) \ matched, 1) :
           df \in {table}, k \in {ColIndex(table.cols, District_ID)} })

\* df[~matched_mask]["District_ID"], the list of the last warning
UnmatchedRows(table) ==
    Bind({ LET matched == {r \in DOMAIN df.rows : RegexContains(df.rows[r][k], JoinedPattern)}
           IN  SelectIdx(df.rows, (DOMAIN df.rows) \ matched, 1) :
           df \in {table}, k \in {ColIndex(table.cols, District_ID)} })

\* split_by_chamber(df): the dict returned, and the rows it reports unmatched
split_by_chamber(table) ==
    Bind({ [result    |-> [ch \in ChamberSet |-> ChamberSubset(df, ch)],
            unmatched |-> UnmatchedRows(df)] : df \in {table} })

\* pd.merge(left, right, on="District_ID", how="outer", suffixes=("", "_dup")).
\* A column name of both sides keeps its name on the left and gets "_dup" on
\* the right.  Rows: every pair of rows with equal keys; a row without a
\* partner is filled with NaN.  (pandas returns the rows sorted by key; the
\* order kept here is left rows, then right rows without a partner.)
DupSuffix == <<"_","d","u","p">>
OuterMerge(left_df, right_df) ==
    Bind({ LET rkeep == (DOMAIN right.cols) \ {rk}
               rcols == [i \in DOMAIN right.cols |->
                           IF right.cols[i] \in Range(left.cols) THEN right.cols[i] \o DupSuffix
                           ELSE right.cols[i]]
               rnan == [i \in 1..(Len(right.cols) - 1) |-> NaN]
               forLeft(l) ==
                   Bind({ IF ps = <<>> THEN << l \o rnan >>
                          ELSE [j \in DOMAIN ps |-> l \o SelectIdx(ps[j], rkeep, 1)] :
                          ps \in {SelectIdx(right.rows,
                                      {r \in DOMAIN right.rows : right.rows[r][rk] = l[lk]}, 1)} })
               lonely == {r \in DOMAIN right.rows :
                             \A l \in DOMAIN left.rows : left.rows[l][lk] # right.rows[r][rk]}
               forRight(row) ==
                   [i \in DOMAIN left.cols |-> IF i = lk THEN row[rk] ELSE NaN]
                       \o SelectIdx(row, rkeep, 1)
           IN  DataFrame(left.cols \o SelectIdx(rcols, rkeep, 1),
                         Flatten([l \in DOMAIN left.rows |-> forLeft(left.rows[l])])
                             \o Bind({ [j \in DOMAIN rs |-> forRight(rs[j])] :
                                       rs \in {SelectIdx(right.rows, lonely, 1)} })) :
           left \in {left_df}, right \in {right_df},
           lk \in {ColIndex(left_df.cols, District_ID)},
           rk \in {ColIndex(right_df.cols, District_ID)} })

\* MergeStep that assigns the incoming table instead of merging it
MergeStep_Assign(merged, incoming) ==
    Bind({ IF IsEmpty(df) THEN merged ELSE df : df \in {incoming} })

\* one turn of the loop of merge_tables_for_chamber
MergeStep(merged, incoming) ==
    Bind({ IF IsEmpty(df) THEN merged
           ELSE IF IsNone(merged) THEN df
           ELSE Bind({ LET dup_cols == {c \in Range(m.cols) : EndsWith(c, DupSuffix)}
                       IN  DropColumns(m, dup_cols) :
                       m \in {OuterMerge(merged, df)} }) :
           df \in {incoming} })

RECURSIVE MergeLoop(_, _, _, _)
MergeLoop(all_splits, chamber, at, so_far) ==
    Bind({ IF i > Len(all_splits) THEN merged
           ELSE MergeLoop(all_splits, chamber, i + 1, MergeStep(merged, all_splits[i][chamber])) :
           i \in {at}, merged \in {so_far} })

merge_tables_for_chamber(tables, chamber) ==
    Bind({ MergeLoop(all_splits, chamber, 1, NoneValue) : all_splits \in {tables} })

(* ------------------------------ Variant B ------------------------------ *)
\* re.search(r"State (House|Senate) District (\d+)", s, re.IGNORECASE)
ChamberWords == << <<"H","o","u","s","e">>, <<"S","e","n","a","t","e">> >>
StatePrefix == <<"S","t","a","t","e"," ">>
DistrictInfix == <<" ","D","i","s","t","r","i","c","t"," ">>

\* the longest run of digits of s from offset i (counted from 0): \d+ is greedy
RECURSIVE DigitRun(_, _)
DigitRun(s, from) ==
    Bind({ IF i + 1 <= Len(s) /\ IsDigit(s[i + 1]) THEN <<s[i + 1]>> \o DigitRun(s, i + 1)
           ELSE <<>> : i \in {from} })

\* the pattern with chamber word w matches at offset i
DistrictPhrases == [w \in DOMAIN ChamberWords |-> StatePrefix \o ChamberWords[w] \o DistrictInfix]
DistrictMatchAt(s, i, w) ==
    /\ MatchCI(s, i, DistrictPhrases[w])
    /\ i + Len(DistrictPhrases[w]) + 1 <= Len(s)
    /\ IsDigit(s[i + Len(DistrictPhrases[w]) + 1])

\* the offset of the leftmost match at or after i, or -1
FirstDistrictMatch(s, from) ==
    Bind({ IF hits = {} THEN -1 ELSE CHOOSE j \in hits : \A k \in hits : j <= k :
           hits \in {{j \in from..Len(s) :
                         \E w \in DOMAIN ChamberWords : DistrictMatchAt(s, j, w)}} })

\* the match object (its two groups) of the leftmost match, or None
ReSearchDistrict(str) ==
    Bind({ IF i < 0 THEN NoneValue
           ELSE LET w == CHOOSE w \in DOMAIN ChamberWords : DistrictMatchAt(s, i, w)
                    at == i + Len(StatePrefix)
                IN  [group1 |-> Slice(s, at, at + Len(ChamberWords[w])),
                     group2 |-> DigitRun(s, at + Len(ChamberWords[w]) + Len(DistrictInfix))] :
           s \in {str}, i \in {FirstDistrictMatch(str, 0)} })

\* len(s.split(sep))
RECURSIVE SplitCount(_, _)
SplitCount(str, sep) ==
    Bind({ IF i >= 0 THEN 1 + SplitCount(Slice(s, i + Len(sep), Len(s)), sep) ELSE 1 :
           s \in {str}, i \in {Find(str, sep, 0)} })

Bangs == <<"!","!">>
Semicolon == <<";">>

\* parse_census_header without the two "!!" checks
parse_census_header_NoBangsCheck(col) ==
    Bind({ IF IsNone(m) THEN NoneValue
           ELSE [chamber     |-> Lower(m.group1),
                 district_id |-> ZFill(IntToStr(ParseInt(m.group2)), DISTRICT_ID_PAD),
                 measure     |-> measure] :
           measure \in {Strip(SplitLast(col, Bangs))},
           m \in {ReSearchDistrict(SplitFirst(col, Semicolon))} })

\* parse_census_header that pads the digits as written, without int()
parse_census_header_NoInt(col) ==
    IF ~Contains(col, Bangs) THEN NoneValue
    ELSE IF SplitCount(col, Bangs) < 2 THEN NoneValue
    ELSE Bind({ IF IsNone(m) THEN NoneValue
                ELSE [chamber     |-> Lower(m.group1),
                      district_id |-> ZFill(m.group2, DISTRICT_ID_PAD),
                      measure     |-> measure] :
                measure \in {Strip(SplitLast(col, Bangs))},
                m \in {ReSearchDistrict(SplitFirst(col, Semicolon))} })

parse_census_header(col) ==
    IF ~Contains(col, Bangs) THEN NoneValue
    ELSE IF SplitCount(col, Bangs) < 2 THEN NoneValue
    ELSE Bind({ IF IsNone(m) THEN NoneValue
                ELSE [chamber     |-> Lower(m.group1),
                      district_id |-> ZFill(IntToStr(ParseInt(m.group2)), DISTRICT_ID_PAD),
                      measure     |-> measure] :
                measure \in {Strip(SplitLast(col, Bangs))},
                m \in {ReSearchDistrict(SplitFirst(col, Semicolon))} })

\* A Python dict that keeps insertion order: a sequence of <<key, value>>.
DictKeys(dict) == Bind({ [i \in DOMAIN d |-> d[i][1]] : d \in {dict} })
DictHas(dict, key) == Bind({ \E i \in DOMAIN d : d[i][1] = k : d \in {dict}, k \in {key} })
DictGet(dict, key) ==
    Bind({ d[CHOOSE i \in DOMAIN d : d[i][1] = k][2] : d \in {dict}, k \in {key} })
\* d[k] = v
DictSet(dict, key, value) ==
    Bind({ IF DictHas(d, k) THEN [i \in DOMAIN d |-> IF d[i][1] = k THEN <<k, v>> ELSE d[i]]
           ELSE Append(d, <<k, v>>) :
           d \in {dict}, k \in {key}, v \in {value} })

Estimate == <<"e","s","t","i","m","a","t","e">>

\* WriteCells that reads every cell from the first district column
RECURSIVE WriteCells_FirstColumn(_, _, _, _)
WriteCells_FirstColumn(so_far, csv, c, from) ==
    Bind({ IF row_idx > Len(csv.chars) THEN record
           ELSE WriteCells_FirstColumn(
                    DictSet(record, csv.chars[row_idx], csv.cells[row_idx][1]),
                    csv, c, row_idx + 1) :
           record \in {so_far}, row_idx \in {from} })

\* the inner loop of load_and_transpose: the cells of column c written into record
RECURSIVE WriteCells(_, _, _, _)
WriteCells(so_far, csv, c, from) ==
    Bind({ IF row_idx > Len(csv.chars) THEN record
           ELSE WriteCells(DictSet(record, csv.chars[row_idx], csv.cells[row_idx][c]),
                           csv, c, row_idx + 1) :
           record \in {so_far}, row_idx \in {from} })

\* one turn of the loop over df.columns[1:] of load_and_transpose
LoadColumn(records, csv, c) ==
    Bind({ IF IsNone(header) THEN records
           ELSE IF ESTIMATES_ONLY /\ Lower(header.measure) # Estimate THEN records
           ELSE LET chamber == header.chamber
                    dist_id == header.district_id
                    start == IF DictHas(records[chamber], dist_id)
                             THEN DictGet(records[chamber], dist_id)
                             ELSE << <<District_ID, dist_id>> >>
                IN  [records EXCEPT ![chamber] =
                        DictSet(records[chamber], dist_id, WriteCells(start, csv, c, 1))] :
           header \in {parse_census_header(csv.headers[c])} })

RECURSIVE LoadLoop(_, _, _)
LoadLoop(so_far, csv, column) ==
    Bind({ IF c > Len(csv.headers) THEN records
           ELSE LoadLoop(LoadColumn(records, csv, c), csv, c + 1) :
           records \in {so_far}, c \in {column} })

\* the keys of a list of dicts in the order pd.DataFrame(list) meets them
RECURSIVE UnionKeys(_, _)
UnionKeys(records, so_far) ==
    Bind({ IF dicts = <<>> THEN seen
           ELSE Bind({ UnionKeys(Tail(dicts),
                                 seen \o SelectIdx(ks, {i \in DOMAIN ks : ks[i] \notin Range(seen)}, 1)) :
                       ks \in {DictKeys(Head(dicts))} }) :
           dicts \in {records}, seen \in {so_far} })

\* pd.DataFrame(list(records[chamber].values()))
DataFrameOfDicts(records) ==
    Bind({ DataFrame(cols, [r \in DOMAIN dicts |-> [i \in DOMAIN cols |->
               IF DictHas(dicts[r], cols[i]) THEN DictGet(dicts[r], cols[i]) ELSE NaN]]) :
           dicts \in {records}, cols \in {UnionKeys(records, <<>>)} })

\* records[chamber] names its districts by Lower(group 1); chamber names as str
ChamberName(ch) == IF ch = "house" THEN <<"h","o","u","s","e">> ELSE <<"s","e","n","a","t","e">>

load_and_transpose(file) ==
    Bind({ Bind({ [ch \in ChamberSet |->
                     IF records[ChamberName(ch)] = <<>> THEN EmptyDataFrame
                     ELSE DataFrameOfDicts([i \in DOMAIN records[ChamberName(ch)] |->
                                               records[ChamberName(ch)][i][2]])] :
                  records \in {LoadLoop([ch \in {ChamberName(x) : x \in ChamberSet} |-> <<>>],
                                        csv, 1)} }) :
           csv \in {file} })

(* ------------------------------- the join ------------------------------ *)
\* Series.astype(str).str.strip() on the key column
StripKeys(table, key) ==
    Bind({ [df EXCEPT !.rows = [r \in DOMAIN df.rows |->
               [df.rows[r] EXCEPT ![k] = Strip(df.rows[r][k])]]] :
           df \in {table}, k \in {ColIndex(table.cols, key)} })

\* gdf[shp_key].apply(lambda x: str(int(x)) if x.isdigit() else x)
UnpadKeys(table, key) ==
    Bind({ [df EXCEPT !.rows = [r \in DOMAIN df.rows |->
               [df.rows[r] EXCEPT ![k] =
                   IF IsDigitStr(df.rows[r][k]) THEN IntToStr(ParseInt(df.rows[r][k]))
                   ELSE df.rows[r][k]]]] :
           df \in {table}, k \in {ColIndex(table.cols, key)} })

\* gdf.merge(census_df, left_on=shp_key, right_on="District_ID", how="left"):
\* the rows of gdf in their order, each once per census row of the same key,
\* or once with NaN when there is none; the columns of both sides
LeftMerge(left_df, right_df, shp_key) ==
    Bind({ LET rnan == [i \in DOMAIN right.cols |-> NaN]
               forLeft(l) ==
                   Bind({ IF ps = <<>> THEN << l \o rnan >>
                          ELSE [j \in DOMAIN ps |-> l \o ps[j]] :
                          ps \in {SelectIdx(right.rows,
                                      {r \in DOMAIN right.rows : right.rows[r][rk] = l[lk]}, 1)} })
           IN  DataFrame(left.cols \o right.cols,
                         Flatten([l \in DOMAIN left.rows |-> forLeft(left.rows[l])])) :
           left \in {left_df}, right \in {right_df},
           lk \in {ColIndex(left_df.cols, shp_key)},
           rk \in {ColIndex(right_df.cols, District_ID)} })

\* the two key sets of the mismatch report
KeySet(df, key) == Range(KeyColumn(df, key))

\* what both join_to_shapefile do after the keys are normalised
JoinNormalised(boundaries, census, shp_key) ==
    Bind({ [joined |-> IF District_ID \in Range(merged.cols) /\ District_ID # shp_key
                       THEN DropColumns(merged, {District_ID}) ELSE merged,
            unmatched_shp    |-> shp_ids \ census_ids,
            unmatched_census |-> census_ids \ shp_ids,
            matched          |-> shp_ids \cap census_ids] :
           shp_ids \in {KeySet(boundaries, shp_key)},
           census_ids \in {KeySet(census, District_ID)},
           merged \in {LeftMerge(boundaries, census, shp_key)} })

\* join_to_shapefile of Census_Join_Pipeline.py (gdf is gpd.read_file(shp_path))
join_to_shapefile_A(shapefile, census, shp_key) ==
    Bind({ JoinNormalised(IF STRIP_LEADING_ZEROS THEN UnpadKeys(gdf, shp_key) ELSE gdf,
                          census_df, shp_key) :
           gdf \in {StripKeys(shapefile, shp_key)},
           census_df \in {StripKeys(census, District_ID)} })

\* join_to_shapefile of Census_Join_simple.py
join_to_shapefile_B(shapefile, census, shp_key) ==
    Bind({ JoinNormalised(gdf, census_df, shp_key) :
           gdf \in {StripKeys(shapefile, shp_key)},
           census_df \in {StripKeys(census, District_ID)} })

(* ------------------------------- inputs -------------------------------- *)
\* all sequences over S of length lo..hi, and those without repetition
SeqsBetween(S, lo, hi) == UNION {[1..k -> S] : k \in lo..hi}
Injective(s) == \A i, j \in DOMAIN s : s[i] = s[j] => i = j
DistinctSeqs(S, lo, hi) == {s \in SeqsBetween(S, lo, hi) : Injective(s)}
\* the entries of seq at an increasing choice of at most n positions
SubSeqs(seq, n) ==
    { SelectIdx(seq, keep, 1) : keep \in {k \in SUBSET (DOMAIN seq) : Cardinality(k) <= n} }

\* The cells of a CSV are never looked at by the code, only moved: each cell
\* gets a text of its own, tag + row number + column number.
Cell(tag, r, c) == <<tag>> \o IntToStr(r) \o <<"_">> \o IntToStr(c)
CsvOf(tag, headers, chars) ==
    [headers |-> headers, chars |-> chars,
     cells |-> [r \in DOMAIN chars |-> [c \in DOMAIN headers |-> Cell(tag, r, c)]]]

\* column names handed to the sanitizer
SanitizeNames ==
    { <<"T","o","t","a","l"," ","p","o","p">>, <<"T","o","t","a","l","_","p","o","p">>, <<"T","o","t","a","l"," ","p","o","p","u","l","a","t","i","o","n"," ","(","2","0","2","0",")">>,
      <<"T","o","t","a","l"," ","p","o","p","u","l","a","t","i","o","n"," ","(","2","0","2","1",")">>, <<" ","A","g","e"," ">> }
SanitizeInputs ==
    { DataFrame(<<District_ID>> \o names,
                << <<<<"1">>>> \o [i \in DOMAIN names |-> Cell("v", 1, i)] >>) :
        names \in SeqsBetween(SanitizeNames, 0, MaxCols) }

\* District_ID labels of a transposed table of Variant A, each with the
\* chambers whose pattern re.search finds in it
Label(text, house, senate) == [text |-> text, house |-> house, senate |-> senate]
SplitLabels ==
    { Label(<<"H","o","u","s","e"," ","D","i","s","t","r","i","c","t"," ","1">>, TRUE, FALSE), Label(<<"H","D"," ","1">>, TRUE, FALSE),
      Label(<<"h","d"," ","0","1">>, TRUE, FALSE),            Label(<<"H","-","0","1">>, TRUE, FALSE),
      Label(<<"W","a","r","e","h","o","u","s","e"," ","6">>, TRUE, FALSE),      Label(<<"H","o","u","s","e">>, TRUE, FALSE),
      Label(<<"S","e","n","a","t","e"," ","5">>, FALSE, TRUE),         Label(<<"S","D","-","0","5">>, FALSE, TRUE),
      Label(<<"S","-","2">>, FALSE, TRUE),              Label(<<"H","o","u","s","e"," ","S","D"," ","3">>, TRUE, TRUE),
      Label(<<"W","a","r","d"," ","9">>, FALSE, FALSE),          Label(<<"A","H","D"," ","4">>, FALSE, FALSE),
      Label(<<"H","D","S","-","7">>, FALSE, FALSE) }
SplitCharacteristics == << <<"T","o","t","a","l"," ","p","o","p">> >>
SplitInputs ==
    { [built |-> labels,
       df |-> transpose_csv(CsvOf("v", [i \in DOMAIN labels |-> labels[i].text],
                                  SplitCharacteristics))] :
        labels \in DistinctSeqs(SplitLabels, 0, MaxDistricts) }

\* Per-chamber tables handed to merge_tables_for_chamber: unique keys, one
\* characteristic each.  No table has x where another has x_dup (what
\* pd.merge does when a suffixed name meets an existing column depends on
\* the pandas version and is not modelled).
MergeKeys == { <<"1">>, <<"2">>, <<"3">> }
MergeNames == { <<"p","o","p">>, <<"a","g","e">>, <<"i","n","c","_","d","u","p">> }
MergeTables(tag) ==
    { DataFrame(<<District_ID, name>>, [i \in DOMAIN keys |-> <<keys[i], <<tag>> \o keys[i]>>]) :
        name \in MergeNames,
        keys \in {k \in DistinctSeqs(MergeKeys, 0, MaxRows) :
                     \A i \in DOMAIN k : \A j \in DOMAIN k : i < j => ParseInt(k[i]) < ParseInt(k[j])} }
MergeInputs ==
    { [A |-> a, B |-> b, C |-> c] : a \in MergeTables("a"), b \in MergeTables("b"),
                                    c \in MergeTables("c") }

\* Headers of the CSV of Variant B, each with what it was built from:
\* geo (the text before the semicolon), semi (whether a semicolon segment
\* follows), tail (the "!!" segments), and, when geo is a district phrase,
\* the chamber it names and the district number it writes.
GeoPhrase(word, n, rest) == <<"S","t","a","t","e"," ">> \o word \o <<" ","D","i","s","t","r","i","c","t"," ">> \o n \o rest
ChamberSpellings ==
    { [text |-> <<"H","o","u","s","e">>,  chamber |-> <<"h","o","u","s","e">>],
      [text |-> <<"S","E","N","A","T","E">>, chamber |-> <<"s","e","n","a","t","e">>],
      [text |-> <<"s","e","n","a","t","e">>, chamber |-> <<"s","e","n","a","t","e">>] }
NumberSpellings ==
    { [text |-> <<"7">>, id |-> <<"0","0","7">>], [text |-> <<"0","0","7">>, id |-> <<"0","0","7">>],
      [text |-> <<"0","0","1","2">>, id |-> <<"0","1","2">>], [text |-> <<"1","2","3","4">>, id |-> <<"1","2","3","4">>] }
ValidGeos ==
    { [text |-> GeoPhrase(w.text, n.text, <<" ","(","2","0","2","4",")">>), phrase |-> TRUE,
       chamber |-> w.chamber, id |-> n.id] :
        w \in ChamberSpellings, n \in NumberSpellings }
InvalidGeos ==
    { [text |-> t, phrase |-> FALSE, chamber |-> <<>>, id |-> <<>>] :
        t \in { <<"S","t","a","t","e"," ","A","s","s","e","m","b","l","y"," ","D","i","s","t","r","i","c","t"," ","7">>, <<"S","t","a","t","e"," ","H","o","u","s","e"," ","D","i","s","t","r","i","c","t"," ">>,
                <<"S","t","a","t","e"," "," ","H","o","u","s","e"," ","D","i","s","t","r","i","c","t"," ","7">>, <<"C","o","u","n","t","y"," ","1">> } }
MeasureTails ==
    { [text |-> <<"!","!","T","o","t","a","l","!","!","E","s","t","i","m","a","t","e">>,        bangs |-> TRUE,  measure |-> <<"E","s","t","i","m","a","t","e">>],
      [text |-> <<"!","!","T","o","t","a","l","!","!"," ","E","S","T","I","M","A","T","E"," ">>,      bangs |-> TRUE,  measure |-> <<"E","S","T","I","M","A","T","E">>],
      [text |-> <<"!","!","T","o","t","a","l","!","!","M","a","r","g","i","n"," ","o","f"," ","E","r","r","o","r">>, bangs |-> TRUE,  measure |-> <<"M","a","r","g","i","n"," ","o","f"," ","E","r","r","o","r">>],
      [text |-> <<>>,                         bangs |-> FALSE, measure |-> <<>>] }
HeaderOf(geo, semi, tail) ==
    [text |-> geo.text \o (IF semi THEN <<";"," ","H","a","w","a","i","i">> ELSE <<>>) \o tail.text,
     geo |-> geo, semi |-> semi, tail |-> tail]
HeaderPool ==
    { HeaderOf(geo, semi, tail) :
        geo \in ValidGeos \cup InvalidGeos, semi \in BOOLEAN, tail \in MeasureTails }
\* the further columns of such a CSV
MoreHeaders ==
    << HeaderOf([text |-> GeoPhrase(<<"H","o","u","s","e">>, <<"7">>, <<>>), phrase |-> TRUE,
                 chamber |-> <<"h","o","u","s","e">>, id |-> <<"0","0","7">>], TRUE,
                [text |-> <<"!","!","E","s","t","i","m","a","t","e">>, bangs |-> TRUE, measure |-> <<"E","s","t","i","m","a","t","e">>]),
       HeaderOf([text |-> GeoPhrase(<<"H","o","u","s","e">>, <<"1","2">>, <<>>), phrase |-> TRUE,
                 chamber |-> <<"h","o","u","s","e">>, id |-> <<"0","1","2">>], TRUE,
                [text |-> <<"!","!","E","s","t","i","m","a","t","e">>, bangs |-> TRUE, measure |-> <<"E","s","t","i","m","a","t","e">>]),
       HeaderOf([text |-> GeoPhrase(<<"H","o","u","s","e">>, <<"7">>, <<>>), phrase |-> TRUE,
                 chamber |-> <<"h","o","u","s","e">>, id |-> <<"0","0","7">>], TRUE,
                [text |-> <<"!","!","M","a","r","g","i","n"," ","o","f"," ","E","r","r","o","r">>, bangs |-> TRUE, measure |-> <<"M","a","r","g","i","n"," ","o","f"," ","E","r","r","o","r">>]),
       HeaderOf([text |-> <<"L","a","b","e","l">>, phrase |-> FALSE, chamber |-> <<>>, id |-> <<>>], FALSE,
                [text |-> <<>>, bangs |-> FALSE, measure |-> <<>>]) >>
\* the header lists: pd.read_csv never returns two columns of the same name
HeaderLists ==
    { <<h>> \o more : h \in HeaderPool, more \in SubSeqs(MoreHeaders, MaxDistricts - 1) }
LoadCharacteristics == { <<"T","o","t","a","l"," ","p","o","p">>, <<"M","e","d","i","a","n"," ","a","g","e">>, District_ID }
LoadInputs ==
    { [built |-> hs, csv |-> CsvOf("v", [i \in DOMAIN hs |-> hs[i].text], chars)] :
        hs \in {l \in HeaderLists : Injective([i \in DOMAIN l |-> l[i].text])},
        chars \in SeqsBetween(LoadCharacteristics, 1, MaxChars) }

(* -------------------------------- state -------------------------------- *)
VARIABLES
    pc,          \* where the run (or the call under test) stands
    input,       \* what was read from disk, or the arguments of the call
    all_splits,  \* run() of Variant A: the list of split_by_chamber results
    splits,      \* the dict of per-chamber tables (split_by_chamber, load_and_transpose)
    unmatched,   \* the rows split_by_chamber reports as matching no chamber
    parsed,      \* what parse_census_header returned for each header
    chamber_i,   \* run(): position in ["house", "senate"]
    census_df,   \* run(): the census table of the chamber at hand
    merged,      \* results of the merge_tables_for_chamber calls under test
    outputs,     \* what join_to_shapefile returned, per chamber
    log          \* the files written and warnings printed, in order

vars == <<pc, input, all_splits, splits, unmatched, parsed, chamber_i, census_df,
          merged, outputs, log>>

Pending == [pending |-> TRUE]
IsPending(x) == "pending" \in DOMAIN x

\* everything but pc and input, before anything ran
Blank ==
    /\ all_splits = <<>>
    /\ splits = Pending
    /\ unmatched = <<>>
    /\ parsed = <<>>
    /\ chamber_i = 1
    /\ census_df = Pending
    /\ merged = [all |-> Pending, inner |-> Pending, outer |-> Pending]
    /\ outputs = [ch \in ChamberSet |-> Pending]
    /\ log = <<>>

(* ------------------- the functions, called on their own ---------------- *)
InitSanitize == pc = "sanitize" /\ input \in SanitizeInputs /\ Blank

CallSanitize ==
    /\ pc = "sanitize"
    /\ census_df' = sanitize_all_columns(input, <<District_ID>>)
    /\ pc' = "returned"
    /\ UNCHANGED <<input, all_splits, splits, unmatched, parsed, chamber_i, merged,
                   outputs, log>>

SpecSanitize == InitSanitize /\ [][CallSanitize]_vars

InitSplit == pc = "split" /\ input \in SplitInputs /\ Blank

CallSplit ==
    /\ pc = "split"
    /\ splits' = split_by_chamber(input.df).result
    /\ unmatched' = <<split_by_chamber(input.df).unmatched>>
    /\ pc' = "returned"
    /\ UNCHANGED <<input, all_splits, parsed, chamber_i, census_df, merged, outputs, log>>

SpecSplit == InitSplit /\ [][CallSplit]_vars

InitLoad == pc = "load" /\ input \in LoadInputs /\ Blank

CallLoad ==
    /\ pc = "load"
    /\ splits' = load_and_transpose(input.csv)
    /\ parsed' = [c \in DOMAIN input.csv.headers |-> parse_census_header(input.csv.headers[c])]
    /\ pc' = "returned"
    /\ UNCHANGED <<input, all_splits, unmatched, chamber_i, census_df, merged, outputs, log>>

SpecLoad == InitLoad /\ [][CallLoad]_vars

\* merge_tables_for_chamber(all_splits, chamber) reads splits[chamber].empty of
\* every element: on None that raises AttributeError
AttributeError == [raised |-> "AttributeError"]
HasRaised(x) == "raised" \in DOMAIN x
MergeCall(tables) ==
    IF \E i \in DOMAIN tables : IsNone(tables[i]) THEN AttributeError
    ELSE merge_tables_for_chamber([i \in DOMAIN tables |-> [ch \in {"house"} |-> tables[i]]],
                                  "house")

InitMerge == pc = "merge" /\ input \in MergeInputs /\ Blank

\* merge_tables_for_chamber([A, B, C])
CallMergeAll ==
    /\ pc = "merge"
    /\ IsPending(merged.all)
    /\ merged' = [merged EXCEPT !.all = MergeCall(<<input.A, input.B, input.C>>)]
    /\ UNCHANGED <<pc, input, all_splits, splits, unmatched, parsed, chamber_i, census_df,
                   outputs, log>>

\* merge_tables_for_chamber([B, C])
CallMergeInner ==
    /\ pc = "merge"
    /\ IsPending(merged.inner)
    /\ merged' = [merged EXCEPT !.inner = MergeCall(<<input.B, input.C>>)]
    /\ UNCHANGED <<pc, input, all_splits, splits, unmatched, parsed, chamber_i, census_df,
                   outputs, log>>

\* merge_tables_for_chamber([A, the result of merging B and C])
CallMergeOuter ==
    /\ pc = "merge"
    /\ ~IsPending(merged.inner)
    /\ IsPending(merged.outer)
    /\ merged' = [merged EXCEPT !.outer = MergeCall(<<input.A, merged.inner>>)]
    /\ UNCHANGED <<pc, input, all_splits, splits, unmatched, parsed, chamber_i, census_df,
                   outputs, log>>

SpecMerge == InitMerge /\ [][CallMergeAll \/ CallMergeInner \/ CallMergeOuter]_vars

(* ------------------------------- run() --------------------------------- *)
\* CSV files of a run of Variant A (CSV_FILES lists four; the model reads NumFiles)
NumFiles == 2

RunLabels == << <<"H","D"," ","1">>, <<"H","D"," ","0","1">>, <<"S","D"," ","1">> >>
RunCharacteristics == { <<"T","o","t","a","l"," ","p","o","p">>, <<"M","e","d","i","a","n"," ","a","g","e">> }
\* file f of a run of Variant A: the first file holds "Total pop", a later
\* one the same characteristic again or another one
RunCsvs(f) ==
    { CsvOf(DigitChars[f + 1], headers, <<name>>) :
        headers \in SubSeqs(RunLabels, MaxDistricts),
        name \in IF f = 1 THEN { <<"T","o","t","a","l"," ","p","o","p">> } ELSE RunCharacteristics }
RunHeaders ==
    << <<"S","t","a","t","e"," ","H","o","u","s","e"," ","D","i","s","t","r","i","c","t"," ","7"," ","(","2","0","2","4",")",";"," ","H","a","w","a","i","i","!","!","T","o","t","a","l","!","!","E","s","t","i","m","a","t","e">>,
       <<"S","t","a","t","e"," ","H","o","u","s","e"," ","D","i","s","t","r","i","c","t"," ","0","0","7"," ","(","2","0","2","0",")",";"," ","H","a","w","a","i","i","!","!","T","o","t","a","l","!","!","E","s","t","i","m","a","t","e">>,
       <<"S","t","a","t","e"," ","S","e","n","a","t","e"," ","D","i","s","t","r","i","c","t"," ","1","2"," ","(","2","0","2","4",")",";"," ","H","a","w","a","i","i","!","!","T","o","t","a","l","!","!","M","a","r","g","i","n"," ","o","f"," ","E","r","r","o","r">> >>

\* SHAPEFILE_JOIN_KEY of the two scripts
SHAPEFILE_JOIN_KEY_A == [house |-> <<"D","I","S","T","R","I","C","T">>, senate |-> <<"D","I","S","T","R","I","C","T">>]
SHAPEFILE_JOIN_KEY_B == [house |-> <<"S","L","D","L","S","T">>, senate |-> <<"S","L","D","U","S","T">>]
Geometry == <<"g","e","o","m","e","t","r","y">>
BoundaryKeysA == << <<"1">>, <<"0","1">>, <<" ","2"," ">> >>
BoundaryKeysB == << <<"0","0","7">>, <<"7">>, <<" ","0","1","2"," ">> >>
\* gpd.read_file(SHAPEFILES[chamber]): one feature per key, each with a
\* geometry of its own
Shapefile(shp_key, tag, keys) ==
    DataFrame(<<shp_key, Geometry>>, [i \in DOMAIN keys |-> <<keys[i], <<tag>> \o IntToStr(i)>>])
Shapefiles(join_key, keys) ==
    [house |-> Shapefile(join_key.house, "h", keys), senate |-> Shapefile(join_key.senate, "s", keys)]

InitA ==
    /\ pc = "step1"
    /\ \E csvs \in {s \in [1..NumFiles -> UNION {RunCsvs(f) : f \in 1..NumFiles}] :
                       \A f \in 1..NumFiles : s[f] \in RunCsvs(f)} :
       \E keys \in SubSeqs(BoundaryKeysA, MaxFeatures) :
          input = [variant |-> "A", csvs |-> csvs,
                   shapefiles |-> Shapefiles(SHAPEFILE_JOIN_KEY_A, keys)]
    /\ Blank

InitB ==
    /\ pc = "step1"
    /\ \E headers \in SubSeqs(RunHeaders, MaxDistricts) :
       \E chars \in DistinctSeqs(RunCharacteristics, 1, MaxChars) :
       \E keys \in SubSeqs(BoundaryKeysB, MaxFeatures) :
          input = [variant |-> "B", csvs |-> <<CsvOf("v", headers, chars)>>,
                   shapefiles |-> Shapefiles(SHAPEFILE_JOIN_KEY_B, keys)]
    /\ Blank

Init == InitA \/ InitB

Event(ev, chamber) == [ev |-> ev, chamber |-> chamber]
\* after the body of "for chamber in [...]" ran for chamber i
AfterChamber(i) == IF i < Len(Chambers) THEN "chamber" ELSE "finish"

(* run() of Census_Join_Pipeline.py *)
\* if census_df is None or census_df.empty
NoDataA(df) == IsNone(df) \/ IsEmpty(df)

\* one turn of "for fp in CSV_FILES"
A_Step1 ==
    /\ input.variant = "A" /\ pc = "step1"
    /\ LET fp == Len(all_splits) + 1
           s == split_by_chamber(transpose_csv(input.csvs[fp]))
       IN  /\ all_splits' = Append(all_splits, s.result)
           /\ unmatched' = Append(unmatched, s.unmatched)
           /\ pc' = IF fp < Len(input.csvs) THEN "step1" ELSE "chamber"
    /\ UNCHANGED <<input, splits, parsed, chamber_i, census_df, merged, outputs, log>>

\* the merge of a chamber, and the skip of a chamber without data
A_Merge ==
    /\ input.variant = "A" /\ pc = "chamber"
    /\ LET chamber == Chambers[chamber_i]
           df == merge_tables_for_chamber(all_splits, chamber)
       IN  /\ census_df' = df
           /\ IF NoDataA(df)
              THEN /\ log' = Append(log, Event("warning", chamber))
                   /\ chamber_i' = chamber_i + 1
                   /\ pc' = AfterChamber(chamber_i)
              ELSE /\ pc' = "preview"
                   /\ UNCHANGED <<log, chamber_i>>
    /\ UNCHANGED <<input, all_splits, splits, unmatched, parsed, merged, outputs>>

\* census_df.to_csv(preview_path)
A_Preview ==
    /\ input.variant = "A" /\ pc = "preview"
    /\ log' = Append(log, Event("preview", Chambers[chamber_i]))
    /\ pc' = "sanitize"
    /\ UNCHANGED <<input, all_splits, splits, unmatched, parsed, chamber_i, census_df,
                   merged, outputs>>

A_Sanitize ==
    /\ input.variant = "A" /\ pc = "sanitize"
    /\ census_df' = sanitize_all_columns(census_df, <<District_ID>>)
    /\ pc' = "join"
    /\ UNCHANGED <<input, all_splits, splits, unmatched, parsed, chamber_i, merged,
                   outputs, log>>

A_Join ==
    /\ input.variant = "A" /\ pc = "join"
    /\ LET chamber == Chambers[chamber_i]
       IN  /\ outputs' = [outputs EXCEPT ![chamber] =
                  join_to_shapefile_A(input.shapefiles[chamber], census_df,
                                      SHAPEFILE_JOIN_KEY_A[chamber])]
           /\ log' = Append(log, Event("join", chamber))
    /\ chamber_i' = chamber_i + 1
    /\ pc' = AfterChamber(chamber_i)
    /\ UNCHANGED <<input, all_splits, splits, unmatched, parsed, census_df, merged>>

\* the last prints of run()
A_Done ==
    /\ input.variant = "A" /\ pc = "finish"
    /\ pc' = "done"
    /\ UNCHANGED <<input, all_splits, splits, unmatched, parsed, chamber_i, census_df,
                   merged, outputs, log>>

(* run() of Census_Join_simple.py *)
\* the check of run() that never finds a chamber empty
NoDataB_Never(df) == FALSE

\* if census_df.empty
NoDataB(df) == IsEmpty(df)

\* the warnings load_and_transpose prints for the chambers it found empty
RECURSIVE LoadWarnings(_, _)
LoadWarnings(result, i) ==
    IF i > Len(Chambers) THEN <<>>
    ELSE (IF result[Chambers[i]] = EmptyDataFrame THEN <<Event("warning", Chambers[i])>>
          ELSE <<>>) \o LoadWarnings(result, i + 1)

\* splits = load_and_transpose(CSV_FILE)
B_Load ==
    /\ input.variant = "B" /\ pc = "step1"
    /\ LET result == load_and_transpose(input.csvs[1])
       IN  /\ splits' = result
           /\ log' = log \o LoadWarnings(result, 1)
    /\ pc' = "chamber"
    /\ UNCHANGED <<input, all_splits, unmatched, parsed, chamber_i, census_df, merged,
                   outputs>>

\* census_df = splits[chamber], and the skip of an empty chamber
B_Pick ==
    /\ input.variant = "B" /\ pc = "chamber"
    /\ LET chamber == Chambers[chamber_i]
       IN  /\ census_df' = splits[chamber]
           /\ IF NoDataB(splits[chamber])
              THEN /\ log' = Append(log, Event("skipping", chamber))
                   /\ chamber_i' = chamber_i + 1
                   /\ pc' = AfterChamber(chamber_i)
              ELSE /\ pc' = "preview"
                   /\ UNCHANGED <<log, chamber_i>>
    /\ UNCHANGED <<input, all_splits, splits, unmatched, parsed, merged, outputs>>

B_Preview ==
    /\ input.variant = "B" /\ pc = "preview"
    /\ log' = Append(log, Event("preview", Chambers[chamber_i]))
    /\ pc' = "sanitize"
    /\ UNCHANGED <<input, all_splits, splits, unmatched, parsed, chamber_i, census_df,
                   merged, outputs>>

B_Sanitize ==
    /\ input.variant = "B" /\ pc = "sanitize"
    /\ census_df' = sanitize_all_columns(census_df, <<District_ID>>)
    /\ pc' = "join"
    /\ UNCHANGED <<input, all_splits, splits, unmatched, parsed, chamber_i, merged,
                   outputs, log>>

B_Join ==
    /\ input.variant = "B" /\ pc = "join"
    /\ LET chamber == Chambers[chamber_i]
       IN  /\ outputs' = [outputs EXCEPT ![chamber] =
                  join_to_shapefile_B(input.shapefiles[chamber], census_df,
                                      SHAPEFILE_JOIN_KEY_B[chamber])]
           /\ log' = Append(log, Event("join", chamber))
    /\ chamber_i' = chamber_i + 1
    /\ pc' = AfterChamber(chamber_i)
    /\ UNCHANGED <<input, all_splits, splits, unmatched, parsed, census_df, merged>>

B_Done ==
    /\ input.variant = "B" /\ pc = "finish"
    /\ pc' = "done"
    /\ UNCHANGED <<input, all_splits, splits, unmatched, parsed, chamber_i, census_df,
                   merged, outputs, log>>

Next ==
    \/ A_Step1 \/ A_Merge \/ A_Preview \/ A_Sanitize \/ A_Join \/ A_Done
    \/ B_Load \/ B_Pick \/ B_Preview \/ B_Sanitize \/ B_Join \/ B_Done

Spec == Init /\ [][Next]_vars

\* run() is one thread that runs to its end: every step that can be taken is taken
FairSpec == Spec /\ WF_vars(Next)

(* ------------------------------- claims -------------------------------- *)
Returned == pc = "returned"

\* how many rows of the joined table carry geometry g
FeatureCount(joined, g) ==
    Cardinality({r \in DOMAIN joined.rows : joined.rows[r][ColIndex(joined.cols, Geometry)] = g})

\* C1: the joined output has exactly as many rows as the boundary table, every
\* boundary feature appearing exactly once, whatever the census match rate
\* (both variants).
C1_JoinTotality ==
    \A ch \in ChamberSet :
        ~IsPending(outputs[ch]) =>
            LET gdf == input.shapefiles[ch]
                joined == outputs[ch].joined
            IN  /\ Len(joined.rows) = Len(gdf.rows)
                /\ \A f \in DOMAIN gdf.rows :
                      FeatureCount(joined, gdf.rows[f][ColIndex(gdf.cols, Geometry)]) = 1

\* C2: sanitize_all_columns returns as many columns as it got, pairwise
\* distinct names (the untouched District_ID included), and every sanitized
\* name has at most 10 characters, also for names that repeat.
C2_SanitizerUniqueness ==
    Returned =>
        /\ Len(census_df.cols) = Len(input.cols)
        /\ Injective(census_df.cols)
        /\ \A i \in DOMAIN census_df.cols :
              input.cols[i] # District_ID => Len(census_df.cols[i]) <= MaxFieldLen

\* the CSV without its district column c
RemoveColumn(csv, c) ==
    LET keep == (DOMAIN csv.headers) \ {c}
    IN  [headers |-> SelectIdx(csv.headers, keep, 1), chars |-> csv.chars,
         cells |-> [r \in DOMAIN csv.cells |-> SelectIdx(csv.cells[r], keep, 1)]]

\* header c got "no match" and left nothing in either chamber table
Rejected(c) ==
    /\ IsNone(parsed[c])
    /\ splits = load_and_transpose(RemoveColumn(input.csv, c))

\* C3 as stated: a header without a semicolon segment, without a "!!"
\* segment, or whose geography segment is no district phrase, gets "no
\* match" and contributes no row and no cell to either chamber table.
C3_ParserRejection_AsStated ==
    Returned =>
        \A c \in DOMAIN input.built :
            LET h == input.built[c]
            IN  (~h.semi \/ ~h.tail.bangs \/ ~h.geo.phrase) => Rejected(c)

\* C3 as amended: a header without any "!!", or without a district phrase in
\* the text before its first semicolon (in the whole header when it has no
\* semicolon), gets "no match" and contributes no row and no cell to either
\* chamber table.
C3_ParserRejection ==
    Returned =>
        \A c \in DOMAIN input.built :
            LET h == input.built[c]
            IN  (~h.tail.bangs \/ ~h.geo.phrase) => Rejected(c)

C3_Witness ==
    /\ Returned
    /\ Len(input.built) = 2
    /\ ~input.built[1].geo.phrase /\ input.built[1].tail.bangs /\ input.built[1].semi
    /\ IsNone(parsed[1])
    /\ ~IsNone(parsed[2])
    /\ Len(splits["house"].rows) = 1

\* C4: for a header "State <House|Senate> District <n> ...; ...!!...!!<measure>"
\* parse_census_header returns the chamber word in lower case, the value of n
\* padded with zeros to width 3, and the last "!!" segment without the
\* whitespace around it.
C4_ParserResult ==
    Returned =>
        \A c \in DOMAIN input.built :
            LET h == input.built[c]
            IN  (h.geo.phrase /\ h.semi /\ h.tail.bangs) =>
                    parsed[c] = [chamber |-> h.geo.chamber, district_id |-> h.geo.id,
                                 measure |-> h.tail.measure]

C4_Witness ==
    /\ Returned
    /\ input.built[1].geo.text = GeoPhrase(<<"S","E","N","A","T","E">>, <<"0","0","1","2">>, <<" ","(","2","0","2","4",")">>)
    /\ input.built[1].semi
    /\ input.built[1].tail.text = <<"!","!","T","o","t","a","l","!","!"," ","E","S","T","I","M","A","T","E"," ">>
    /\ parsed[1] = [chamber |-> <<"s","e","n","a","t","e">>, district_id |-> <<"0","1","2">>, measure |-> <<"E","S","T","I","M","A","T","E">>]

\* the District_ID cells of every per-chamber table made so far
ChamberTables ==
    {all_splits[i][ch] : i \in DOMAIN all_splits, ch \in ChamberSet}
        \cup (IF IsPending(splits) THEN {} ELSE {splits[ch] : ch \in ChamberSet})

\* C5: every per-chamber table of split_by_chamber and of load_and_transpose
\* has one row per distinct District_ID and no row with an empty District_ID.
C5_ChamberKeyInvariant ==
    \A t \in ChamberTables :
        ~IsEmpty(t) =>
            /\ Injective(KeyColumn(t, District_ID))
            /\ \A r \in DOMAIN t.rows : KeyColumn(t, District_ID)[r] # <<>>

\* the (chamber, district, characteristic, value) quadruples a dict of
\* per-chamber tables holds
QuadsOf(tables) ==
    UNION { UNION { { <<ChamberName(ch), tables[ch].rows[r][ColIndex(tables[ch].cols, District_ID)],
                        tables[ch].cols[i], tables[ch].rows[r][i]>> :
                        i \in (DOMAIN tables[ch].cols) \ {ColIndex(tables[ch].cols, District_ID)} } :
                    r \in DOMAIN tables[ch].rows } :
            ch \in ChamberSet }

\* the quadruples the wide table was built from: column c is the district
\* its header names
KnownQuads ==
    { <<parsed[c].chamber, parsed[c].district_id, input.csv.chars[r], input.csv.cells[r][c]>> :
        c \in DOMAIN input.csv.headers, r \in DOMAIN input.csv.chars }

\* every header parses, no two name the same district of the same chamber,
\* no two rows the same characteristic
BuiltFromQuads ==
    /\ \A c \in DOMAIN parsed : ~IsNone(parsed[c])
    /\ Injective([c \in DOMAIN parsed |-> <<parsed[c].chamber, parsed[c].district_id>>])
    /\ Injective(input.csv.chars)

\* the tables hold exactly the known quadruples, one row per district
ExactReshape ==
    /\ QuadsOf(splits) = KnownQuads
    /\ \A ch \in ChamberSet :
          Len(splits[ch].rows) =
              Cardinality({c \in DOMAIN parsed : parsed[c].chamber = ChamberName(ch)})

\* C6 as stated: for a wide table built from known quadruples with
\* parseable headers, the two tables hold exactly those quadruples, one row
\* per distinct district per chamber.
C6_ReshapeExact_AsStated == (Returned /\ BuiltFromQuads) => ExactReshape

\* C6 as amended: the same, for headers that parse and whose measure is
\* "Estimate" in any letter case, and characteristics not called District_ID.
C6_ReshapeExact ==
    ( /\ Returned
      /\ BuiltFromQuads
      /\ \A c \in DOMAIN parsed : Lower(parsed[c].measure) = Estimate
      /\ District_ID \notin Range(input.csv.chars) ) => ExactReshape

C6_Witness ==
    /\ Returned
    /\ BuiltFromQuads
    /\ \A c \in DOMAIN parsed : Lower(parsed[c].measure) = Estimate
    /\ District_ID \notin Range(input.csv.chars)
    /\ Len(input.csv.headers) = 2 /\ Len(input.csv.chars) = 2
    /\ Len(splits["house"].rows) = 2

\* the rows of a table as a set of mappings from column name to cell
RowSet(df) ==
    { [n \in Range(df.cols) |-> df.rows[r][ColIndex(df.cols, n)]] : r \in DOMAIN df.rows }
IsTable(x) == ~IsPending(x) /\ ~IsNone(x) /\ ~HasRaised(x)
InputKeys == UNION { KeySet(input[t], District_ID) : t \in {"A", "B", "C"} }
DisjointNames ==
    \A s, t \in {"A", "B", "C"} :
        s # t => Range(Tail(input[s].cols)) \cap Range(Tail(input[t].cols)) = {}

\* merging [A, B, C] and merging [A, merge of [B, C]] give the same rows, one
\* per key of the union of the three key sets
SameMerge ==
    IF IsNone(merged.all) THEN IsNone(merged.outer) /\ InputKeys = {}
    ELSE /\ IsTable(merged.all) /\ IsTable(merged.outer)
         /\ RowSet(merged.all) = RowSet(merged.outer)
         /\ KeySet(merged.all, District_ID) = InputKeys
         /\ Len(merged.all.rows) = Cardinality(InputKeys)
         /\ Len(merged.outer.rows) = Cardinality(InputKeys)

BothMerged == ~IsPending(merged.all) /\ ~IsPending(merged.outer)

\* C7 as stated: for tables A, B, C with unique keys and pairwise disjoint
\* characteristic names, merging [A, B, C] gives the same rows as merging A
\* with the merge of [B, C]; the keys are the union, each once.
C7_MergeAssociative_AsStated == (BothMerged /\ DisjointNames) => SameMerge

\* C7 as amended: the same, when B or C has a row (merging two empty tables
\* gives None, which merge_tables_for_chamber cannot take as a table).
C7_MergeAssociative ==
    (BothMerged /\ DisjointNames /\ (~IsEmpty(input.B) \/ ~IsEmpty(input.C))) => SameMerge

C7_Witness ==
    /\ BothMerged /\ DisjointNames
    /\ ~IsEmpty(input.A) /\ ~IsEmpty(input.B) /\ ~IsEmpty(input.C)
    /\ KeySet(input.A, District_ID) # KeySet(input.B, District_ID)
    /\ KeySet(input.B, District_ID) # KeySet(input.C, District_ID)
    /\ IsTable(merged.outer) /\ Len(merged.outer.rows) = 3

\* the first table of [A, B, C] that has a row and the characteristic n
Contributors(n) ==
    SelectIdx(<<"A", "B", "C">>,
              {i \in 1..3 : ~IsEmpty(input[<<"A", "B", "C">>[i]])
                            /\ n \in Range(Tail(input[<<"A", "B", "C">>[i]].cols))}, 1)
ContributedNames == {n \in MergeNames : Contributors(n) # <<>>}
\* the cell of characteristic n for key k in table t, NaN when t has no row k
CellOf(t, n, k) ==
    IF k \in KeySet(t, District_ID)
    THEN LET r == CHOOSE r \in DOMAIN t.rows : t.rows[r][ColIndex(t.cols, District_ID)] = k
         IN  t.rows[r][ColIndex(t.cols, n)]
    ELSE NaN

\* C8: the merge keeps exactly one column of every characteristic name,
\* holding the values of the first table that contributed it; only incoming
\* duplicates are dropped, every other column of every non-empty table is
\* in the result.
C8_MergeCollisionRule ==
    IsTable(merged.all) =>
        /\ \A n \in ContributedNames :
              /\ Cardinality({i \in DOMAIN merged.all.cols : merged.all.cols[i] = n}) = 1
              /\ \A r \in DOMAIN merged.all.rows :
                    merged.all.rows[r][ColIndex(merged.all.cols, n)] =
                        CellOf(input[Contributors(n)[1]], n,
                               merged.all.rows[r][ColIndex(merged.all.cols, District_ID)])
        /\ Range(merged.all.cols) = {District_ID} \cup ContributedNames

\* the chamber has no data: every split of Variant A, or the table of
\* Variant B, is empty for it
NoData(ch) ==
    IF input.variant = "A"
    THEN pc # "step1" /\ \A f \in DOMAIN all_splits : IsEmpty(all_splits[f][ch])
    ELSE ~IsPending(splits) /\ IsEmpty(splits[ch])
Logged(ev, ch) == \E i \in DOMAIN log : log[i] = Event(ev, ch)
HasChamberData(ch) ==
    IF input.variant = "A"
    THEN pc # "step1" /\ \E f \in DOMAIN all_splits : ~IsEmpty(all_splits[f][ch])
    ELSE ~IsPending(splits) /\ ~IsEmpty(splits[ch])

\* C9: in every run of either pipeline, a chamber without data gets no
\* preview and no join, a warning is printed for it, the run goes on with the
\* other chamber and reaches its end; a chamber with data gets its preview
\* written before its join.
C9_SkipAndOrder ==
    /\ [](\A ch \in ChamberSet :
            NoData(ch) => ~Logged("preview", ch) /\ ~Logged("join", ch)
                          /\ IsPending(outputs[ch]))
    /\ [](\A i \in DOMAIN log :
            log[i].ev = "join" =>
                \E j \in 1..(i - 1) : log[j] = Event("preview", log[i].chamber))
    /\ <>(pc = "done")
    /\ [](pc = "done" =>
            \A ch \in ChamberSet :
                /\ NoData(ch) => Logged("warning", ch)
                /\ HasChamberData(ch) => Logged("preview", ch) /\ Logged("join", ch)
                                         /\ ~IsPending(outputs[ch]))

C9_Witness ==
    /\ pc = "done"
    /\ \E ch, other \in ChamberSet :
          /\ NoData(ch) /\ Logged("warning", ch) /\ IsPending(outputs[ch])
          /\ HasChamberData(other) /\ Logged("join", other)

\* row i of the table given to split_by_chamber is in the rows of rows
\* (a row is known by its cells other than District_ID)
HasRow(rows, i) == \E r \in DOMAIN rows : Tail(rows[r]) = Tail(input.df.rows[i])
LabelMatches(i, ch) == IF ch = "house" THEN input.built[i].house ELSE input.built[i].senate

\* C10: split_by_chamber puts every row into the subset of each chamber
\* whose pattern its label matches, both when it matches both, and reports
\* the row as unmatched exactly when it is in no subset.
C10_SplitCoverage ==
    Returned =>
        /\ \A ch \in ChamberSet :
              /\ \A i \in DOMAIN input.built : HasRow(splits[ch].rows, i) <=> LabelMatches(i, ch)
              /\ Len(splits[ch].rows) =
                    Cardinality({i \in DOMAIN input.built : LabelMatches(i, ch)})
        /\ \A i \in DOMAIN input.built :
              HasRow(unmatched[1], i) <=> \A ch \in ChamberSet : ~HasRow(splits[ch].rows, i)
        /\ Len(unmatched[1]) =
              Cardinality({i \in DOMAIN input.built : \A ch \in ChamberSet : ~LabelMatches(i, ch)})

C10_Witness ==
    /\ Returned
    /\ \E i, j \in DOMAIN input.built :
          /\ input.built[i].house /\ input.built[i].senate
          /\ HasRow(splits["house"].rows, i) /\ HasRow(splits["senate"].rows, i)
          /\ ~input.built[j].house /\ ~input.built[j].senate
          /\ HasRow(unmatched[1], j)
=============================================================================
